---- MODULE Spec2Model ----
(***************************************************************************)
(* Point arithmetic of the twisted Edwards curve of Ed448-Goldilocks       *)
(* (src/curve/twedwards/affine.rs) and the RistrettoPoint layer            *)
(* (src/ristretto/points.rs).                                              *)
(*                                                                         *)
(* The operations are pure functions over immutable values.  Each is an    *)
(* operator translated from its Rust body; the state machine draws the     *)
(* inputs in Init and applies one operation (or a chain of operations such *)
(* as negate-then-add of tests::test_negation) per behaviour.              *)
(*                                                                         *)
(* FieldElement and TWISTED_D live in crate::field and crate::constants,   *)
(* outside these two files.  The Goldilocks field has                      *)
(* p = 2^448 - 2^224 - 1, far beyond what can be enumerated, so the field  *)
(* is scaled down to a prime with the same shape: p = 3 (mod 4), so that   *)
(* -1 (the coefficient of x^2 in the curve equation) is a non-square, and  *)
(* a TWISTED_D for which the curve group has order 4 * q, q an odd prime   *)
(* (cofactor 4).  With -1 a non-square, cofactor 4 forces TWISTED_D to be  *)
(* a square (a non-square d puts the points (x, x), (x, -x) with           *)
(* d * x^4 = -1 on the curve and makes the group order a multiple of 8);   *)
(* the Goldilocks value -39082 is a square mod p as well.                  *)
(***************************************************************************)
EXTENDS Integers, Sequences, FiniteSets, TLC

VARIABLES pc, a, b, c, lhs, rhs, bytes, res

vars == <<pc, a, b, c, lhs, rhs, bytes, res>>

---------------------------------------------------------------------------
(* crate::field::FieldElement: arithmetic modulo the field prime.          *)

\* The field prime (small stand-in for 2^448 - 2^224 - 1; 19 = 3 mod 4).
P == 19

FieldElement == 0 .. (P - 1)

fe_zero == 0

fe_one == 1

fe_add(x, y) == (x + y) % P

fe_sub(x, y) == (x + P - y) % P

fe_mul(x, y) == (x * y) % P

fe_square(x) == fe_mul(x, x)

fe_negate(x) == (P - x) % P

RECURSIVE fe_pow(_, _)
fe_pow(x, n) == IF n = 0 THEN 1 ELSE fe_mul(x, fe_pow(x, n - 1))

\* Inversion by Fermat: x^(p-2); total, invert(0) = 0.
fe_invert_table == [x \in FieldElement |-> fe_pow(x, P - 2)]

fe_invert(x) == fe_invert_table[x]

\* crate::constants::TWISTED_D (stand-in for -39082): 9 = 3^2 is a square
\* mod 19 and the curve y^2 - x^2 = 1 + 9 x^2 y^2 has 4 * 5 points.
TWISTED_D == 9

---------------------------------------------------------------------------
(* src/curve/twedwards/affine.rs: AffinePoint                              *)

AffinePoint == [x : FieldElement, y : FieldElement]

AffinePoint_identity == [x |-> fe_zero, y |-> fe_one]

AffinePoint_is_on_curve(p) ==
    LET xx == fe_square(p.x)
        yy == fe_square(p.y)
    IN  fe_sub(yy, xx) = fe_add(fe_one, fe_mul(fe_mul(TWISTED_D, xx), yy))

\* Mutation of negate: the sign goes to y instead of x.
AffinePoint_negate_wrong_coordinate(p) == [x |-> p.x, y |-> fe_negate(p.y)]

AffinePoint_negate(p) == [x |-> fe_negate(p.x), y |-> p.y]

\* TWISTED_D * self.x * other.x * self.y * other.y  (left to right)
add_dxxyy(p, q) ==
    fe_mul(fe_mul(fe_mul(fe_mul(TWISTED_D, p.x), q.x), p.y), q.y)

\* Mutation of add: y1 y2 - x1 x2, the numerator of the untwisted law.
add_y_numerator_untwisted(p, q) == fe_sub(fe_mul(p.y, q.y), fe_mul(p.x, q.x))

add_y_numerator(p, q) == fe_add(fe_mul(p.y, q.y), fe_mul(p.x, q.x))

add_y_denominator(p, q) == fe_sub(fe_one, add_dxxyy(p, q))

add_x_numerator(p, q) == fe_add(fe_mul(p.x, q.y), fe_mul(p.y, q.x))

\* Mutation of add: the x denominator takes the sign of the y denominator.
add_x_denominator_wrong_sign(p, q) == fe_sub(fe_one, add_dxxyy(p, q))

add_x_denominator(p, q) == fe_add(fe_one, add_dxxyy(p, q))

AffinePoint_add(p, q) ==
    [x |-> fe_mul(add_x_numerator(p, q), fe_invert(add_x_denominator(p, q))),
     y |-> fe_mul(add_y_numerator(p, q), fe_invert(add_y_denominator(p, q)))]

\* Mutation of to_extensible: T2 copies x instead of y.
AffinePoint_to_extensible_t2_from_x(p) ==
    [X |-> p.x, Y |-> p.y, Z |-> fe_one, T1 |-> p.x, T2 |-> p.x]

AffinePoint_to_extensible(p) ==
    [X |-> p.x, Y |-> p.y, Z |-> fe_one, T1 |-> p.x, T2 |-> p.y]

AffinePoint_to_affine_niels(p) ==
    [y_plus_x  |-> fe_add(p.y, p.x),
     y_minus_x |-> fe_sub(p.y, p.x),
     td        |-> fe_mul(fe_mul(p.x, p.y), TWISTED_D)]

\* ExtensiblePoint::to_extended (crate::curve::twedwards::extensible):
\* T = T1 * T2, the other coordinates unchanged.
ExtensiblePoint_to_extended(e) ==
    [X |-> e.X, Y |-> e.Y, Z |-> e.Z, T |-> fe_mul(e.T1, e.T2)]

AffinePoint_to_extended(p) ==
    ExtensiblePoint_to_extended(AffinePoint_to_extensible(p))

---------------------------------------------------------------------------
(* src/curve/twedwards/affine.rs: AffineNielsPoint                         *)

AffineNielsPoint_equals(n, m) ==
    /\ n.y_minus_x = m.y_minus_x
    /\ n.y_plus_x = m.y_plus_x
    /\ n.td = m.td

AffineNielsPoint_identity ==
    [y_plus_x |-> fe_one, y_minus_x |-> fe_one, td |-> fe_zero]

AffineNielsPoint_to_extended(n) ==
    [X |-> fe_sub(n.y_plus_x, n.y_minus_x),
     Y |-> fe_add(n.y_minus_x, n.y_plus_x),
     Z |-> fe_one,
     T |-> fe_mul(n.y_plus_x, n.y_minus_x)]

---------------------------------------------------------------------------
(* src/ristretto/points.rs: RistrettoPoint, CompressedRistretto            *)

\* Results of the operations: a tagged value; "panic" is a Rust panic.
Value(k, v) == [kind |-> k, val |-> v]

Panic(msg) == Value("panic", msg)

\* [0u8; 56]
CompressedRistretto_identity == [i \in 1 .. 56 |-> 0]

\* RistrettoPoint(e) is a transparent wrapper of the ExtendedPoint e.
RistrettoPoint_equals(p, q) ==
    LET XY == fe_mul(p.X, q.Y)
        YX == fe_mul(p.Y, q.X)
    IN  XY = YX

\* todo!()
RistrettoPoint_encode(p) == Panic("not yet implemented")

\* todo!()
CompressedRistretto_decode(s) == Panic("not yet implemented")

---------------------------------------------------------------------------
(* The inputs.                                                             *)

\* Number of projective scalings (X, Y, Z, T) -> (l X, l Y, l Z, l T),
\* l = 1 .. MaxScale, tried on each operand of RistrettoPoint::equals.
MaxScale == 2

\* The AffinePoints that satisfy the curve equation.
CurvePoints == {p \in AffinePoint : AffinePoint_is_on_curve(p)}

\* ExtendedPoint::IDENTITY, wrapped by RistrettoPoint::IDENTITY.
RistrettoPoint_IDENTITY ==
    [X |-> fe_zero, Y |-> fe_one, Z |-> fe_one, T |-> fe_zero]

\* The same projective point in another scaling (l # 0).
Scale(e, l) ==
    [X |-> fe_mul(l, e.X), Y |-> fe_mul(l, e.Y),
     Z |-> fe_mul(l, e.Z), T |-> fe_mul(l, e.T)]

\* 56-byte strings handed to decode: all zero, all 0xFF.
SampleBytes == {CompressedRistretto_identity, [i \in 1 .. 56 |-> 255]}

NoValue == Value("none", 0)

\* Either any pair of field elements as a (the conversions take any
\* AffinePoint, as the fixture of tests::test_to_extensible does), or three
\* points of the curve.
Init ==
    /\ pc = "ready"
    /\ \/ a \in AffinePoint /\ b = AffinePoint_identity /\ c = AffinePoint_identity
       \/ a \in CurvePoints /\ b \in CurvePoints /\ c \in CurvePoints
    /\ lhs = RistrettoPoint_IDENTITY
    /\ rhs = RistrettoPoint_IDENTITY
    /\ bytes = CompressedRistretto_identity
    /\ res = NoValue

---------------------------------------------------------------------------
(* The operations.                                                         *)

\* a.is_on_curve()
IsOnCurve ==
    /\ pc = "ready"
    /\ pc' = "is_on_curve"
    /\ res' = Value("bool", AffinePoint_is_on_curve(a))
    /\ UNCHANGED <<a, b, c, lhs, rhs, bytes>>

\* a.negate()
Negate ==
    /\ pc = "ready"
    /\ pc' = "negate"
    /\ res' = Value("AffinePoint", AffinePoint_negate(a))
    /\ UNCHANGED <<a, b, c, lhs, rhs, bytes>>

\* neg_a.add(&a), as in tests::test_negation
NegateAdd ==
    /\ pc = "negate"
    /\ pc' = "negate_add"
    /\ res' = Value("AffinePoint", AffinePoint_add(res.val, a))
    /\ UNCHANGED <<a, b, c, lhs, rhs, bytes>>

\* a.add(&b)
Add ==
    /\ pc = "ready"
    /\ pc' = "add"
    /\ res' = Value("AffinePoint", AffinePoint_add(a, b))
    /\ UNCHANGED <<a, b, c, lhs, rhs, bytes>>

\* a.add(&b).add(&c)
AddThen ==
    /\ pc = "add"
    /\ pc' = "add_add"
    /\ res' = Value("AffinePoint", AffinePoint_add(res.val, c))
    /\ UNCHANGED <<a, b, c, lhs, rhs, bytes>>

\* a.to_extensible()
ToExtensible ==
    /\ pc = "ready"
    /\ pc' = "to_extensible"
    /\ res' = Value("ExtensiblePoint", AffinePoint_to_extensible(a))
    /\ UNCHANGED <<a, b, c, lhs, rhs, bytes>>

\* a.to_affine_niels()
ToAffineNiels ==
    /\ pc = "ready"
    /\ pc' = "to_affine_niels"
    /\ res' = Value("AffineNielsPoint", AffinePoint_to_affine_niels(a))
    /\ UNCHANGED <<a, b, c, lhs, rhs, bytes>>

\* AffineNielsPoint::identity()
NielsIdentity ==
    /\ pc = "ready"
    /\ pc' = "niels_identity"
    /\ res' = Value("AffineNielsPoint", AffineNielsPoint_identity)
    /\ UNCHANGED <<a, b, c, lhs, rhs, bytes>>

\* AffineNielsPoint::to_extended of the Niels point just built
NielsToExtended ==
    /\ pc \in {"to_affine_niels", "niels_identity"}
    /\ pc' = IF pc = "niels_identity" THEN "identity_to_extended"
                                      ELSE "niels_to_extended"
    /\ res' = Value("ExtendedPoint", AffineNielsPoint_to_extended(res.val))
    /\ UNCHANGED <<a, b, c, lhs, rhs, bytes>>

\* RistrettoPoint(lhs).equals(&RistrettoPoint(rhs)), lhs and rhs being a and
\* b in extended coordinates, each in any of the scalings
RistrettoEquals ==
    /\ pc = "ready"
    /\ \E l1 \in 1 .. MaxScale, l2 \in 1 .. MaxScale :
          /\ lhs' = Scale(AffinePoint_to_extended(a), l1)
          /\ rhs' = Scale(AffinePoint_to_extended(b), l2)
    /\ pc' = "equals"
    /\ res' = Value("bool", RistrettoPoint_equals(lhs', rhs'))
    /\ UNCHANGED <<a, b, c, bytes>>

\* RistrettoPoint(lhs).encode(), lhs being a in extended coordinates
Encode ==
    /\ pc = "ready"
    /\ lhs' = AffinePoint_to_extended(a)
    /\ pc' = "encode"
    /\ res' = RistrettoPoint_encode(lhs')
    /\ UNCHANGED <<a, b, c, rhs, bytes>>

\* .decode() of the encoding just produced: P.encode().decode().  A panic
\* of encode unwinds through the caller.
DecodeEncoded ==
    /\ pc = "encode"
    /\ pc' = "encode_decode"
    /\ res' = IF res.kind = "panic" THEN res
                                    ELSE CompressedRistretto_decode(res.val)
    /\ UNCHANGED <<a, b, c, lhs, rhs, bytes>>

\* CompressedRistretto(bytes).decode() of bytes from the wire
Decode ==
    /\ pc = "ready"
    /\ bytes' \in SampleBytes
    /\ pc' = "decode"
    /\ res' = CompressedRistretto_decode(bytes')
    /\ UNCHANGED <<a, b, c, lhs, rhs>>

Next ==
    \/ IsOnCurve
    \/ Negate
    \/ NegateAdd
    \/ Add
    \/ AddThen
    \/ ToExtensible
    \/ ToAffineNiels
    \/ NielsIdentity
    \/ NielsToExtended
    \/ RistrettoEquals
    \/ Encode
    \/ DecodeEncoded
    \/ Decode

Spec == Init /\ [][Next]_vars

---------------------------------------------------------------------------
(* Vocabulary of the properties.                                           *)

\* Neither denominator of a.add(&b) is zero.
NonExceptional(p, q) ==
    /\ add_x_denominator(p, q) # fe_zero
    /\ add_y_denominator(p, q) # fe_zero

Double(p) == AffinePoint_add(p, p)

\* The curve group has order 4 * q with q odd, so its cofactor subgroup is
\* the kernel of multiplication by 4: p and q lie in the same coset exactly
\* when 4 p = 4 q.  (Doubling a curve point is never exceptional here.)
SameCoset(p, q) == Double(Double(p)) = Double(Double(q))

\* The affine point (X/Z, Y/Z) an ExtendedPoint stands for.
AffineImage(e) ==
    [x |-> fe_mul(e.X, fe_invert(e.Z)), y |-> fe_mul(e.Y, fe_invert(e.Z))]

---------------------------------------------------------------------------
(* The properties.                                                         *)

\* C1: RistrettoPoint::equals returns true whenever its operands are
\* curve points of the same coset of the order-4 cofactor subgroup, in any
\* projective scaling.
C1_EqualsWholeCoset ==
    (pc = "equals" /\ a \in CurvePoints /\ b \in CurvePoints /\ SameCoset(a, b))
        => res.val = TRUE

\* C2: RistrettoPoint::equals returns true only if its operands, valid
\* curve points in any projective scaling, lie in the same coset of the
\* cofactor subgroup.
C2_EqualsOnlySameCoset ==
    (pc = "equals" /\ a \in CurvePoints /\ b \in CurvePoints /\ res.val = TRUE)
        => SameCoset(a, b)

\* C3: P.encode().decode() returns Some(Q) with Q.equals(P), for every
\* valid P.
C3_RoundTrip ==
    (pc = "encode_decode" /\ a \in CurvePoints)
        => (res.kind = "Some" /\ RistrettoPoint_equals(res.val, lhs))

\* C4: decode never panics, and returns None for the all-ones string.
C4_DecodeNeverPanics ==
    pc = "decode"
        => /\ res.kind \in {"Some", "None"}
           /\ (bytes = [i \in 1 .. 56 |-> 255] => res.kind = "None")

\* C5: for every P on the curve, P.negate().add(&P) is the identity (0, 1).
C5_NegationIsInverse ==
    (pc = "negate_add" /\ AffinePoint_is_on_curve(a))
        => res.val = AffinePoint_identity

C5_Witness ==
    /\ pc = "negate_add"
    /\ AffinePoint_is_on_curve(a)
    /\ a.x # fe_zero
    /\ res.val = AffinePoint_identity

C7_ToExtensibleExact ==
    pc = "to_extensible"
        => /\ res.val = [X |-> a.x, Y |-> a.y, Z |-> fe_one, T1 |-> a.x, T2 |-> a.y]
           /\ fe_mul(res.val.X, fe_invert(res.val.Z)) = a.x
           /\ fe_mul(res.val.Y, fe_invert(res.val.Z)) = a.y
           /\ fe_mul(res.val.T1, res.val.T2)
                = fe_mul(fe_mul(res.val.X, res.val.Y), fe_invert(res.val.Z))

C7_Witness ==
    /\ pc = "to_extensible"
    /\ a.x # fe_zero /\ a.y # fe_zero /\ a.x # a.y
    /\ ~ AffinePoint_is_on_curve(a)
    /\ res.val.T1 = a.x /\ res.val.T2 = a.y

C9_NielsToExtendedValid ==
    ( \/ pc = "identity_to_extended"
      \/ (pc = "niels_to_extended" /\ a \in CurvePoints) )
        => /\ res.val.Z # fe_zero
           /\ fe_mul(res.val.T, res.val.Z) = fe_mul(res.val.X, res.val.Y)
           /\ AffinePoint_is_on_curve(AffineImage(res.val))

\* C10: to_affine_niels of a curve point (x, y) is (y + x, y - x, 2 d x y),
\* and of the identity it is AffineNielsPoint::identity().
C10_ToAffineNielsForm ==
    (pc = "to_affine_niels" /\ a \in CurvePoints)
        => /\ res.val =
                [y_plus_x  |-> fe_add(a.y, a.x),
                 y_minus_x |-> fe_sub(a.y, a.x),
                 td        |-> fe_mul(2, fe_mul(TWISTED_D, fe_mul(a.x, a.y)))]
           /\ (a = AffinePoint_identity
                 => AffineNielsPoint_equals(res.val, AffineNielsPoint_identity))

====
